---- MODULE Spec2Model ----
(***************************************************************************)
(* A model of the CI helpers of FastLED:                                   *)
(*                                                                         *)
(*   ci/ci/compile_for_board.py  compile_examples, run by several threads  *)
(*                               (one batch per board) that share the      *)
(*                               module globals ERROR_HAPPENED and         *)
(*                               FIRST_BUILD_LOCK;                         *)
(*   ci/docs.py                  get_git_info and update_doxyfile.         *)
(*                                                                         *)
(* Texts are sequences of one-character strings, so that str.replace and   *)
(* re.sub are computed character by character, as Python computes them.    *)
(***************************************************************************)
EXTENDS Integers, Sequences, FiniteSets, TLC

VARIABLES
    USE_FIRST_BUILD_LOCK,   \* module global, fixed at import (line 14)
    ERROR_HAPPENED,         \* module global (line 9)
    FIRST_BUILD_LOCK,       \* module global threading.Lock: TRUE when locked
    examples,               \* examples[b]: the argument of batch b
    pc,                     \* pc[b]: where batch b is in compile_examples
    idx,                    \* idx[b]: position of the for loop of batch b
    is_first,               \* local of compile_examples
    success,                \* local of compile_examples
    message,                \* local of compile_examples
    ret,                    \* ret[b]: value returned by batch b, <<>> before
    invocations,            \* invocations[b]: the compiles batch b started
    outcomes,               \* outcomes[b]: what the build tool answered
    captured,               \* result.stdout of one build tool run
    normalized,             \* the texts got by normalizing captured, in turn
    RELEASE_TAG,            \* os.environ.get("RELEASE_TAG", "")
    git_tags,               \* the tags of the repository
    project_number,         \* get_git_info's result, update_doxyfile's argument
    commit_message,         \* get_git_info's second result
    doxyfile,               \* the bytes of docs/Doxyfile on disk
    linesep,                \* os.linesep of the platform
    written                 \* the Doxyfile after each update_doxyfile call

buildVars == <<USE_FIRST_BUILD_LOCK, ERROR_HAPPENED, FIRST_BUILD_LOCK,
               examples, pc, idx, is_first, success, message, ret,
               invocations, outcomes>>
textVars == <<captured, normalized>>
gitVars == <<RELEASE_TAG, git_tags, commit_message>>
doxyVars == <<doxyfile, linesep, written>>

vars == <<buildVars, textVars, gitVars, project_number, doxyVars>>

(***************************************************************************)
(* Bounds and inputs.                                                      *)
(***************************************************************************)
NumBatches == 2
MaxExamples == 2

BoardNames == <<"uno", "esp32", "teensy", "due", "nano">>
ExampleNames == <<"Blink", "Fade", "Noise", "Cylon", "Fire">>

Batches == {BoardNames[i] : i \in 1..NumBatches}

\* The example lists a caller may pass: the first n names of the catalogue.
ExampleLists == {SubSeq(ExampleNames, 1, n) : n \in 0..MaxExamples}

LibSrc == <<"l", "i", "b", "/", "s", "r", "c">>
LibBackSrc == <<"l", "i", "b", "\\", "s", "r", "c">>
Src == <<"s", "r", "c">>

\* What the build tool may answer to one invocation: exit code and output.
ToolAnswers ==
    { [returncode |-> 0, stdout |-> <<"o", "k", " ">> \o LibSrc],
      [returncode |-> 1, stdout |-> LibBackSrc \o <<":", "e">>] }

(***************************************************************************)
(* str.replace(old, new): the occurrences of old, found left to right and  *)
(* not overlapping, are each replaced by new.                              *)
(***************************************************************************)
StartsWith(s, i, old) ==
    /\ i + Len(old) - 1 <= Len(s)
    /\ SubSeq(s, i, i + Len(old) - 1) = old

RECURSIVE ReplaceFrom(_, _, _, _)
ReplaceFrom(s, i, old, new) ==
    IF i > Len(s) THEN <<>>
    ELSE IF StartsWith(s, i, old)
         THEN new \o ReplaceFrom(s, i + Len(old), old, new)
         ELSE <<s[i]>> \o ReplaceFrom(s, i + 1, old, new)

Replace(s, old, new) == ReplaceFrom(s, 1, old, new)

Normalize_OnlySlash(stdout) == Replace(stdout, LibSrc, Src)

\* stdout.replace("lib/src", "src").replace("lib\\src", "src")
Normalize(stdout) == Replace(Replace(stdout, LibSrc, Src), LibBackSrc, Src)

(***************************************************************************)
(* compile_for_board_and_example: the pair it returns for a tool answer.   *)
(***************************************************************************)
CompileResult(answer) ==
    <<answer.returncode = 0, Normalize(answer.stdout)>>

(***************************************************************************)
(* compile_examples                                                        *)
(***************************************************************************)
SuccessReturn == <<TRUE, <<>>>>

ErrorMessage(example, board, msg) ==
    <<"Error building ", example, " for board ", board, ". stdout:\n">> \o msg

\* The variables of the other programs, while compile_examples is modelled.
TextIdle == captured = <<>> /\ normalized = <<>>
GitIdle ==
    /\ RELEASE_TAG = <<>> /\ git_tags = {}
    /\ project_number = <<>> /\ commit_message = <<>>
DoxyIdle == doxyfile = <<>> /\ linesep = <<>> /\ written = <<>>
BuildIdle ==
    /\ USE_FIRST_BUILD_LOCK = FALSE
    /\ ERROR_HAPPENED = FALSE
    /\ FIRST_BUILD_LOCK = FALSE
    /\ examples = <<>> /\ pc = <<>> /\ idx = <<>> /\ is_first = <<>>
    /\ success = <<>> /\ message = <<>> /\ ret = <<>>
    /\ invocations = <<>> /\ outcomes = <<>>

Init ==
    /\ USE_FIRST_BUILD_LOCK \in BOOLEAN
    /\ ERROR_HAPPENED = FALSE
    /\ FIRST_BUILD_LOCK = FALSE
    /\ examples \in [Batches -> ExampleLists]
    /\ pc = [b \in Batches |-> "loop"]
    /\ idx = [b \in Batches |-> 0]
    /\ is_first = [b \in Batches |-> TRUE]
    /\ success = [b \in Batches |-> TRUE]
    /\ message = [b \in Batches |-> <<>>]
    /\ ret = [b \in Batches |-> <<>>]
    /\ invocations = [b \in Batches |-> <<>>]
    /\ outcomes = [b \in Batches |-> <<>>]
    /\ TextIdle /\ GitIdle /\ DoxyIdle

ShouldAbort_NoCheck == FALSE

\* line 84: if ERROR_HAPPENED
ShouldAbort == ERROR_HAPPENED

AbortReturn_Failure == <<FALSE, <<>>>>

\* line 85: return True, ""
AbortReturn == SuccessReturn

\* Lines 83-85 and 107: the for loop takes the next example, or ends; with
\* an example in hand the global flag is read.
LoopHead(b) ==
    /\ pc[b] = "loop"
    /\ IF idx[b] >= Len(examples[b])
       THEN /\ pc' = [pc EXCEPT ![b] = "done"]
            /\ ret' = [ret EXCEPT ![b] = SuccessReturn]
            /\ idx' = idx
       ELSE IF ShouldAbort
            THEN /\ pc' = [pc EXCEPT ![b] = "done"]
                 /\ ret' = [ret EXCEPT ![b] = AbortReturn]
                 /\ idx' = [idx EXCEPT ![b] = idx[b] + 1]
            ELSE /\ pc' = [pc EXCEPT ![b] = "branch"]
                 /\ ret' = ret
                 /\ idx' = [idx EXCEPT ![b] = idx[b] + 1]
    /\ UNCHANGED <<textVars, gitVars, project_number, doxyVars,
                   USE_FIRST_BUILD_LOCK, ERROR_HAPPENED, FIRST_BUILD_LOCK,
                   examples, is_first, success, message, invocations,
                   outcomes>>

NeedsGate_Inverted(b) == is_first[b] /\ ~USE_FIRST_BUILD_LOCK

NeedsGate_EveryExample(b) == USE_FIRST_BUILD_LOCK

\* line 89: if is_first and USE_FIRST_BUILD_LOCK
NeedsGate(b) == is_first[b] /\ USE_FIRST_BUILD_LOCK

\* Lines 90-95: with FIRST_BUILD_LOCK: blocks until the lock is free, takes
\* it and starts the compile.
GatedCompileStart(b) ==
    /\ pc[b] = "branch"
    /\ NeedsGate(b)
    /\ ~FIRST_BUILD_LOCK
    /\ FIRST_BUILD_LOCK' = TRUE
    /\ pc' = [pc EXCEPT ![b] = "gated_compile"]
    /\ invocations' = [invocations EXCEPT ![b] =
           Append(@, [example |-> examples[b][idx[b]], gate |-> TRUE])]
    /\ UNCHANGED <<textVars, gitVars, project_number, doxyVars,
                   USE_FIRST_BUILD_LOCK, ERROR_HAPPENED, examples, idx,
                   is_first, success, message, ret, outcomes>>

\* Lines 96-99: the compile starts without the lock.
PlainCompileStart(b) ==
    /\ pc[b] = "branch"
    /\ ~NeedsGate(b)
    /\ pc' = [pc EXCEPT ![b] = "compile"]
    /\ invocations' = [invocations EXCEPT ![b] =
           Append(@, [example |-> examples[b][idx[b]], gate |-> FALSE])]
    /\ UNCHANGED <<textVars, gitVars, project_number, doxyVars,
                   USE_FIRST_BUILD_LOCK, ERROR_HAPPENED, FIRST_BUILD_LOCK,
                   examples, idx, is_first, success, message, ret, outcomes>>

ReleasedOnExit_OnlyOnSuccess(ok) == IF ok THEN FALSE ELSE FIRST_BUILD_LOCK

\* The with statement releases the lock when its body ends, whatever the
\* compile returned.
ReleasedOnExit(ok) == FALSE

\* Lines 93-95: the build tool answers, compile_for_board_and_example
\* returns, the with block is left.
GatedCompileReturn(b) ==
    /\ pc[b] = "gated_compile"
    /\ \E answer \in ToolAnswers :
          /\ success' = [success EXCEPT ![b] = CompileResult(answer)[1]]
          /\ message' = [message EXCEPT ![b] = CompileResult(answer)[2]]
          /\ outcomes' = [outcomes EXCEPT ![b] = Append(@, answer)]
          /\ FIRST_BUILD_LOCK' = ReleasedOnExit(CompileResult(answer)[1])
    /\ pc' = [pc EXCEPT ![b] = "after"]
    /\ UNCHANGED <<textVars, gitVars, project_number, doxyVars,
                   USE_FIRST_BUILD_LOCK, ERROR_HAPPENED, examples, idx,
                   is_first, ret, invocations>>

\* Lines 97-99: the build tool answers, compile_for_board_and_example
\* returns.
PlainCompileReturn(b) ==
    /\ pc[b] = "compile"
    /\ \E answer \in ToolAnswers :
          /\ success' = [success EXCEPT ![b] = CompileResult(answer)[1]]
          /\ message' = [message EXCEPT ![b] = CompileResult(answer)[2]]
          /\ outcomes' = [outcomes EXCEPT ![b] = Append(@, answer)]
    /\ pc' = [pc EXCEPT ![b] = "after"]
    /\ UNCHANGED <<textVars, gitVars, project_number, doxyVars,
                   USE_FIRST_BUILD_LOCK, ERROR_HAPPENED, FIRST_BUILD_LOCK,
                   examples, idx, is_first, ret, invocations>>

FailureStops_Continue(b) == FALSE

\* line 101: if not success
FailureStops(b) == ~success[b]

\* Lines 100-106: is_first is cleared; a failed compile sets the global flag
\* and returns the error, a successful one goes round the loop.
AfterCompile(b) ==
    /\ pc[b] = "after"
    /\ is_first' = [is_first EXCEPT ![b] = FALSE]
    /\ IF FailureStops(b)
       THEN /\ ERROR_HAPPENED' = TRUE
            /\ ret' = [ret EXCEPT ![b] =
                   <<FALSE, ErrorMessage(examples[b][idx[b]], b, message[b])>>]
            /\ pc' = [pc EXCEPT ![b] = "done"]
       ELSE /\ pc' = [pc EXCEPT ![b] = "loop"]
            /\ UNCHANGED <<ERROR_HAPPENED, ret>>
    /\ UNCHANGED <<textVars, gitVars, project_number, doxyVars,
                   USE_FIRST_BUILD_LOCK, FIRST_BUILD_LOCK, examples, idx,
                   success, message, invocations, outcomes>>

Step(b) ==
    \/ LoopHead(b)
    \/ GatedCompileStart(b)
    \/ PlainCompileStart(b)
    \/ GatedCompileReturn(b)
    \/ PlainCompileReturn(b)
    \/ AfterCompile(b)

Next == \E b \in Batches : Step(b)

Spec == Init /\ [][Next]_vars

\* For termination: every batch has work to do, one example or the longest
\* list.
LiveInit ==
    /\ Init
    /\ \A b \in Batches : Len(examples[b]) \in {1, MaxExamples}

\* Some thread that can take a step does (the scheduler runs a runnable
\* thread, and every run of the build tool ends).
LiveSpec == LiveInit /\ [][Next]_vars /\ WF_vars(Next)

(***************************************************************************)
(* Properties of compile_examples                                          *)
(***************************************************************************)
Compiling(b) == pc[b] \in {"gated_compile", "compile"}

GatedCount(b) ==
    Cardinality({k \in 1..Len(invocations[b]) : invocations[b][k].gate})

OwnFailure(b) ==
    \E k \in 1..Len(outcomes[b]) : outcomes[b][k].returncode # 0

\* C1: in the constrained environment at most one batch at a time is inside
\* the compile of the first example of its sequence.
C1_FirstBuildsExclusive ==
    USE_FIRST_BUILD_LOCK =>
        Cardinality({b \in Batches : Compiling(b) /\ idx[b] = 1}) <= 1

\* C1 witness: one batch is inside its first compile while another one, past
\* its flag check, waits for the gate.
C1_Witness ==
    /\ USE_FIRST_BUILD_LOCK
    /\ \E b, c \in Batches :
          /\ b # c
          /\ pc[b] = "gated_compile" /\ idx[b] = 1
          /\ pc[c] = "branch" /\ idx[c] = 1

\* C2 as stated: every batch takes the gate for exactly one of its compiles
\* when the environment is constrained and for none otherwise, and holds it
\* only while compiling its first example.
C2_Original ==
    \A b \in Batches :
        /\ pc[b] = "gated_compile" => USE_FIRST_BUILD_LOCK /\ idx[b] = 1
        /\ \A k \in 1..Len(invocations[b]) :
              invocations[b][k].gate => USE_FIRST_BUILD_LOCK /\ k = 1
        /\ pc[b] = "done" =>
              GatedCount(b) = (IF USE_FIRST_BUILD_LOCK THEN 1 ELSE 0)

\* C2 amended: a batch takes the gate at most once, and exactly once when
\* the environment is constrained and the batch invokes at least one compile;
\* it takes it only in the constrained environment, and holds it only while
\* compiling its first example.
C2_GateOnlyForFirstCompile ==
    \A b \in Batches :
        /\ pc[b] = "gated_compile" => USE_FIRST_BUILD_LOCK /\ idx[b] = 1
        /\ \A k \in 1..Len(invocations[b]) :
              invocations[b][k].gate => USE_FIRST_BUILD_LOCK /\ k = 1
        /\ GatedCount(b) <= 1
        /\ Len(invocations[b]) >= 1 =>
              GatedCount(b) = (IF USE_FIRST_BUILD_LOCK THEN 1 ELSE 0)
        /\ Len(invocations[b]) >= 1 =>
              invocations[b][1].gate = USE_FIRST_BUILD_LOCK

\* C2 witness: a batch in the constrained environment is compiling its second
\* example, without the gate, after a gated first compile.
C2_Witness ==
    \E b \in Batches :
        /\ USE_FIRST_BUILD_LOCK
        /\ pc[b] = "compile" /\ idx[b] = 2
        /\ invocations[b][1].gate /\ ~invocations[b][2].gate

\* C3: once the flag is set it stays set, and a batch that is at its
\* per-iteration flag check starts no compile: it returns (True, ""), and a
\* batch that has returned starts nothing.
C3_NoCompileAfterFlagCheck ==
    [][\A b \in Batches :
          /\ ERROR_HAPPENED => ERROR_HAPPENED'
          /\ (ERROR_HAPPENED /\ pc[b] = "loop") =>
                /\ invocations'[b] = invocations[b]
                /\ pc'[b] \in {"loop", "done"}
                /\ pc'[b] = "done" => ret'[b] = SuccessReturn
          /\ pc[b] = "done" =>
                /\ pc'[b] = "done"
                /\ invocations'[b] = invocations[b]
                /\ ret'[b] = ret[b]]_vars

\* C3 witness: with the flag set, a batch has returned (True, "") after at
\* least one compile and with examples left.
C3_Witness ==
    /\ ERROR_HAPPENED
    /\ \E b \in Batches :
          /\ pc[b] = "done" /\ ret[b] = SuccessReturn
          /\ Len(invocations[b]) >= 1
          /\ Len(invocations[b]) < Len(examples[b])

\* C4: a failed compile is the last compile of its batch; the batch goes on
\* to set the flag and to return (False, message), the message naming the
\* failing example, the board and the captured output.
C4_FailureStopsBatch ==
    \A b \in Batches : \A k \in 1..Len(outcomes[b]) :
        outcomes[b][k].returncode # 0 =>
            /\ k = Len(invocations[b])
            /\ pc[b] \in {"after", "done"}
            /\ pc[b] = "done" =>
                  /\ ERROR_HAPPENED
                  /\ ret[b][1] = FALSE
                  /\ ret[b][2][2] = examples[b][k]
                  /\ ret[b][2][4] = b
                  /\ SubSeq(ret[b][2], 6, Len(ret[b][2]))
                        = CompileResult(outcomes[b][k])[2]

\* C4 witness: ["Blink", "Fade"] on "uno", Blink failed, the batch returned
\* the failure and Fade was not attempted.
C4_Witness ==
    /\ examples["uno"] = <<"Blink", "Fade">>
    /\ pc["uno"] = "done"
    /\ ret["uno"][1] = FALSE
    /\ ret["uno"][2][2] = "Blink"
    /\ Len(invocations["uno"]) = 1
    /\ ERROR_HAPPENED

\* C5: a batch returns a failure exactly when one of its own compiles
\* failed; every other return, a stop on the flag included, is (True, "").
C5_FailureIffOwnCompileFailed ==
    \A b \in Batches :
        pc[b] = "done" =>
            /\ ret[b] # <<>>
            /\ (ret[b][1] = FALSE) <=> OwnFailure(b)
            /\ ~OwnFailure(b) => ret[b] = SuccessReturn

\* C5 witness: a batch that compiled nothing of its own list returned
\* (True, "") because another batch had failed.
C5_Witness ==
    \E b, c \in Batches :
        /\ b # c
        /\ pc[b] = "done" /\ ret[b] = SuccessReturn
        /\ invocations[b] = <<>> /\ Len(examples[b]) >= 1
        /\ pc[c] = "done" /\ ret[c][1] = FALSE

UnoFailedFirst ==
    /\ pc["uno"] = "done"
    /\ Len(outcomes["uno"]) = 1
    /\ ret["uno"][1] = FALSE

\* C6 as stated: once "uno" has failed on its first example while "esp32"
\* has not yet taken the gate, "esp32" invokes no compile and returns
\* (True, "").
C6_Original ==
    [][(/\ USE_FIRST_BUILD_LOCK
        /\ UnoFailedFirst
        /\ invocations["esp32"] = <<>>) =>
            /\ invocations'["esp32"] = <<>>
            /\ pc'["esp32"] = "done" => ret'["esp32"] = SuccessReturn]_vars

\* C6 amended: once "uno" has failed on its first example while "esp32" has
\* not yet made the flag check of its first iteration, "esp32" invokes no
\* compile and returns (True, "").
C6_FlagSeenAtFirstCheck ==
    [][(/\ USE_FIRST_BUILD_LOCK
        /\ UnoFailedFirst
        /\ invocations["esp32"] = <<>>
        /\ pc["esp32"] \in {"loop", "done"}) =>
            /\ invocations'["esp32"] = <<>>
            /\ pc'["esp32"] \in {"loop", "done"}
            /\ pc'["esp32"] = "done" => ret'["esp32"] = SuccessReturn]_vars

\* C6 witness: "uno" failed on its first example and "esp32", with examples
\* to build, returned (True, "") without a compile.
C6_Witness ==
    /\ USE_FIRST_BUILD_LOCK
    /\ UnoFailedFirst
    /\ Len(examples["esp32"]) >= 1
    /\ pc["esp32"] = "done"
    /\ ret["esp32"] = SuccessReturn
    /\ invocations["esp32"] = <<>>

\* C10: under fair scheduling every batch eventually returns, and the gate
\* is locked only while some batch is inside its gated compile.
C10_EveryBatchReturns ==
    /\ [](FIRST_BUILD_LOCK => \E b \in Batches : pc[b] = "gated_compile")
    /\ <>(\A b \in Batches : pc[b] = "done")

\* C10 witness: a batch whose gated first compile failed has returned, and
\* another batch took the gate after it and has returned too.
C10_Witness ==
    \E b, c \in Batches :
        /\ b # c
        /\ pc[b] = "done" /\ pc[c] = "done"
        /\ Len(invocations[b]) = 1 /\ invocations[b][1].gate
        /\ outcomes[b][1].returncode # 0
        /\ Len(invocations[c]) >= 1 /\ invocations[c][1].gate

(***************************************************************************)
(* The normalization of compile_for_board_and_example (lines 63-66) on its *)
(* own: a captured text is normalized, and the result normalized again.    *)
(***************************************************************************)
MaxPieces == 3

\* Captured texts: up to MaxPieces pieces, each a part of a path.
Pieces == { <<"l", "i", "b", "/">>, <<"l", "i", "b", "\\">>, Src, <<"-">> }

RECURSIVE Concat(_)
Concat(ps) == IF ps = <<>> THEN <<>> ELSE Head(ps) \o Concat(Tail(ps))

CapturedTexts ==
    {Concat(ps) : ps \in UNION {[1..n -> Pieces] : n \in 0..MaxPieces}}

TextInit ==
    /\ captured \in CapturedTexts
    /\ normalized = <<>>
    /\ BuildIdle /\ GitIdle /\ DoxyIdle

\* line 66, applied to the captured text and then to its own result
ApplyNormalize ==
    /\ Len(normalized) < 2
    /\ normalized' = Append(normalized,
           Normalize(IF normalized = <<>> THEN captured
                     ELSE normalized[Len(normalized)]))
    /\ UNCHANGED <<buildVars, captured, gitVars, project_number, doxyVars>>

TextNext == ApplyNormalize

SpecNormalize == TextInit /\ [][TextNext]_vars

HasLibSrc(t) == \E i \in 1..Len(t) : StartsWith(t, i, LibSrc)

HasAlias(t) ==
    \E i \in 1..Len(t) :
        StartsWith(t, i, LibSrc) \/ StartsWith(t, i, LibBackSrc)

\* An alias that directly follows "lib/" or "lib\".
HasStackedAlias(t) ==
    \E i \in 5..Len(t) :
        /\ StartsWith(t, i, LibSrc) \/ StartsWith(t, i, LibBackSrc)
        /\ SubSeq(t, i - 4, i - 2) = <<"l", "i", "b">>
        /\ t[i - 1] \in {"/", "\\"}

\* C7 as stated: the normalized text holds no "lib/src", a text without the
\* alias (in either spelling) is left as it is, and normalizing twice gives
\* what normalizing once gives.
C7_Original ==
    /\ Len(normalized) >= 1 =>
          /\ ~HasLibSrc(normalized[1])
          /\ ~HasAlias(captured) => normalized[1] = captured
    /\ Len(normalized) = 2 => normalized[2] = normalized[1]

\* C7 amended: a text with neither "lib/src" nor "lib\src" is left as it is;
\* and when no alias of the captured text directly follows "lib/" or "lib\",
\* the normalized text holds no alias and normalizing it again changes
\* nothing.
C7_NormalizeUnstacked ==
    /\ Len(normalized) >= 1 =>
          /\ ~HasAlias(captured) => normalized[1] = captured
          /\ ~HasStackedAlias(captured) => ~HasAlias(normalized[1])
    /\ Len(normalized) = 2 =>
          (~HasStackedAlias(captured) => normalized[2] = normalized[1])

\* C7 witness: a captured text with an alias, none of them stacked, was
\* normalized twice, and the first pass changed it.
C7_Witness ==
    /\ Len(normalized) = 2
    /\ HasAlias(captured) /\ ~HasStackedAlias(captured)
    /\ normalized[1] # captured
    /\ normalized[2] = normalized[1]

(***************************************************************************)
(* docs.py, get_git_info.  Tag names, the release tag and the SHAs are     *)
(* texts; a tag name is written from its dotted numbers, as git prints it. *)
(***************************************************************************)
MaxParts == 2
MaxTags == 2

DigitChars == <<"0", "1", "2", "3", "4", "5", "6", "7", "8", "9">>

IsDigit(c) == \E d \in 1..10 : DigitChars[d] = c

DigitValue(c) == (CHOOSE d \in 1..10 : DigitChars[d] = c) - 1

RECURSIVE Digits(_)
Digits(n) ==
    IF n < 10 THEN <<DigitChars[n + 1]>>
    ELSE Digits(n \div 10) \o <<DigitChars[(n % 10) + 1]>>

RECURSIVE Render(_)
Render(parts) ==
    IF Len(parts) = 1 THEN Digits(parts[1])
    ELSE Digits(parts[1]) \o <<".">> \o Render(Tail(parts))

TagParts == UNION {[1..n -> {1, 9, 10}] : n \in 1..MaxParts}

\* Tags that start with a digit, and tags that do not ("v9").
NumericTagNames == {Render(parts) : parts \in TagParts}
OtherTagNames == {<<"v">> \o Render(parts) : parts \in [1..1 -> {1, 9, 10}]}
TagNames == NumericTagNames \cup OtherTagNames

Range(f) == {f[x] : x \in DOMAIN f}

TagSets == UNION {{Range(f) : f \in [1..n -> TagNames]} : n \in 0..MaxTags}

ReleaseTags == {<<>>, <<"r", "c", "1">>, <<"1">>}

GitShaShort == <<"1", "a", "2", "b", "3", "c", "4">>
GitShaFull == GitShaShort \o <<"d", "5", "e", "6">>

\* grep -E '^[0-9]'
GrepNumeric(tags) == {t \in tags : t # <<>> /\ IsDigit(t[1])}

\* The numbers sort -V compares: the digit runs of the text, the dots
\* between them apart.
RECURSIVE VersionKeyFrom(_, _, _, _)
VersionKeyFrom(t, i, cur, acc) ==
    IF i > Len(t) THEN Append(acc, cur)
    ELSE IF IsDigit(t[i])
         THEN VersionKeyFrom(t, i + 1, cur * 10 + DigitValue(t[i]), acc)
         ELSE VersionKeyFrom(t, i + 1, 0, Append(acc, cur))

VersionKey(t) == VersionKeyFrom(t, 1, 0, <<>>)

RECURSIVE KeyLess(_, _)
KeyLess(a, b) ==
    IF b = <<>> THEN FALSE
    ELSE IF a = <<>> THEN TRUE
    ELSE IF Head(a) # Head(b) THEN Head(a) < Head(b)
    ELSE KeyLess(Tail(a), Tail(b))

CharCode(c) == IF c = "." THEN 0 ELSE DigitValue(c) + 1

RECURSIVE LexLess(_, _)
LexLess(a, b) ==
    IF b = <<>> THEN FALSE
    ELSE IF a = <<>> THEN TRUE
    ELSE IF Head(a) # Head(b) THEN CharCode(Head(a)) < CharCode(Head(b))
    ELSE LexLess(Tail(a), Tail(b))

\* What plain sort, without -V, compares.
VersionLess_Lexical(a, b) == LexLess(a, b)

\* sort -V: the order of two lines
VersionLess(a, b) == KeyLess(VersionKey(a), VersionKey(b))

\* sort -V: the lines, lowest first
RECURSIVE SortV(_)
SortV(lines) ==
    IF lines = {} THEN <<>>
    ELSE LET low == CHOOSE x \in lines :
                        \A y \in lines : ~VersionLess(y, x)
         IN <<low>> \o SortV(lines \ {low})

\* tail -1, and run()'s strip of the output: the last line, or nothing
Tail1(lines) == IF lines = <<>> THEN <<>> ELSE lines[Len(lines)]

\* line 47: git tag | grep -E '^[0-9]' | sort -V | tail -1
LatestTag(tags) == Tail1(SortV(GrepNumeric(tags)))

\* Python's a or b on texts
Or(a, b) == IF a # <<>> THEN a ELSE b

\* line 54: release_tag or latest_tag or git_sha_short
ProjectNumber(release_tag, latest_tag, git_sha_short) ==
    Or(release_tag, Or(latest_tag, git_sha_short))

GitInit ==
    /\ RELEASE_TAG \in ReleaseTags
    /\ git_tags \in TagSets
    /\ project_number = <<>>
    /\ commit_message = <<>>
    /\ BuildIdle /\ TextIdle /\ DoxyIdle

\* Lines 43-63
GetGitInfo ==
    /\ project_number = <<>>
    /\ LET number == ProjectNumber(RELEASE_TAG, LatestTag(git_tags),
                                   GitShaShort)
       IN /\ project_number' = number
          /\ commit_message' =
                IF number # GitShaShort
                THEN number \o <<" ", "(">> \o GitShaFull \o <<")">>
                ELSE number
    /\ UNCHANGED <<buildVars, textVars, RELEASE_TAG, git_tags, doxyVars>>

GitNext == GetGitInfo

SpecGitInfo == GitInit /\ [][GitNext]_vars

\* The order of dotted numbers: the first differing number decides, and a
\* proper prefix comes first.
PartsLess(d, c) ==
    \E k \in 1..Len(c) :
        /\ \A j \in 1..(k - 1) : j <= Len(d) /\ d[j] = c[j]
        /\ k > Len(d) \/ d[k] < c[k]

NumericPartsOf(tags) == {parts \in TagParts : Render(parts) \in tags}

MaxFilePieces == 3
MaxVersionPieces == 2

Key == <<"P", "R", "O", "J", "E", "C", "T", "_",
         "N", "U", "M", "B", "E", "R">>

FilePieces == {Key, <<"=">>, <<"\n">>, <<"\r">>, <<"x">>}
VersionPieces == {<<"2">>, <<"\n">>, <<"\r">>, <<"\\">>, <<"n">>}

Doxyfiles ==
    {Concat(ps) : ps \in UNION {[1..n -> FilePieces] : n \in 0..MaxFilePieces}}

VersionStrings ==
    {Concat(ps) :
        ps \in UNION {[1..n -> VersionPieces] : n \in 0..MaxVersionPieces}}

\* os.linesep on the platforms main() runs on
LineSeps == { <<"\n">>, <<"\r", "\n">> }

\* line 107, read_text: "\r\n" and "\r" are read as "\n"
RECURSIVE ReadFrom(_, _)
ReadFrom(bytes, i) ==
    IF i > Len(bytes) THEN <<>>
    ELSE IF bytes[i] = "\r"
         THEN <<"\n">> \o
              ReadFrom(bytes, IF i < Len(bytes) /\ bytes[i + 1] = "\n"
                              THEN i + 2 ELSE i + 1)
         ELSE <<bytes[i]>> \o ReadFrom(bytes, i + 1)

ReadText(bytes) == ReadFrom(bytes, 1)

\* line 111, write_text: "\n" is written as os.linesep
RECURSIVE WriteText(_, _)
WriteText(text, sep) ==
    IF text = <<>> THEN <<>>
    ELSE (IF Head(text) = "\n" THEN sep ELSE <<Head(text)>>)
         \o WriteText(Tail(text), sep)

\* \s
Whitespace == {" ", "\t", "\n", "\r", "\f"}

\* \s*, greedy: the first position from j on that holds no whitespace
RECURSIVE SkipSpace(_, _)
SkipSpace(text, j) ==
    IF j <= Len(text) /\ text[j] \in Whitespace
    THEN SkipSpace(text, j + 1) ELSE j

ValueEnd_Empty(text, j) == j

\* .*, greedy: the first position from j on that holds "\n", or the end
RECURSIVE ValueEnd(_, _)
ValueEnd(text, j) ==
    IF j <= Len(text) /\ text[j] # "\n"
    THEN ValueEnd(text, j + 1) ELSE j

\* (?m)^PROJECT_NUMBER\s*= matches at position i
MatchAt(text, i) ==
    /\ i = 1 \/ text[i - 1] = "\n"
    /\ StartsWith(text, i, Key)
    /\ LET j == SkipSpace(text, i + Len(Key))
       IN j <= Len(text) /\ text[j] = "="

\* The position after the match that starts at i
MatchEnd(text, i) == ValueEnd(text, SkipSpace(text, i + Len(Key)) + 1)

\* The replacement template f"PROJECT_NUMBER = {project_number}", as re.sub
\* expands it: \\ is a backslash, \n a line break, a backslash before a
\* digit refers to a group the pattern does not have, a backslash at the
\* end is a bad escape, a backslash before another character that is no
\* letter stays.  (Of the letters only n occurs in the versions here.)
RECURSIVE TemplateOk(_, _)
TemplateOk(v, i) ==
    IF i > Len(v) THEN TRUE
    ELSE IF v[i] # "\\" THEN TemplateOk(v, i + 1)
    ELSE IF i = Len(v) THEN FALSE
    ELSE IF IsDigit(v[i + 1]) THEN FALSE
    ELSE TemplateOk(v, i + 2)

RECURSIVE ExpandFrom(_, _)
ExpandFrom(v, i) ==
    IF i > Len(v) THEN <<>>
    ELSE IF v[i] # "\\" THEN <<v[i]>> \o ExpandFrom(v, i + 1)
    ELSE IF v[i + 1] = "\\" THEN <<"\\">> \o ExpandFrom(v, i + 2)
    ELSE IF v[i + 1] = "n" THEN <<"\n">> \o ExpandFrom(v, i + 2)
    ELSE <<v[i], v[i + 1]>> \o ExpandFrom(v, i + 2)

Replacement(version) == Key \o <<" ", "=", " ">> \o ExpandFrom(version, 1)

\* re.sub: the matches, found left to right, are each replaced
RECURSIVE SubFrom(_, _, _)
SubFrom(text, i, repl) ==
    IF i > Len(text) THEN <<>>
    ELSE IF MatchAt(text, i)
         THEN repl \o SubFrom(text, MatchEnd(text, i), repl)
         ELSE <<text[i]>> \o SubFrom(text, i + 1, repl)

Sub(text, version) == SubFrom(text, 1, Replacement(version))

DoxyInit ==
    /\ doxyfile \in Doxyfiles
    /\ project_number \in VersionStrings
    /\ linesep \in LineSeps
    /\ written = <<doxyfile>>
    /\ BuildIdle /\ TextIdle
    /\ RELEASE_TAG = <<>> /\ git_tags = {} /\ commit_message = <<>>

\* Lines 105-111.  A template re.sub rejects raises before anything is
\* written.
UpdateDoxyfile ==
    /\ Len(written) < 3
    /\ doxyfile' =
          IF TemplateOk(project_number, 1)
          THEN WriteText(Sub(ReadText(doxyfile), project_number), linesep)
          ELSE doxyfile
    /\ written' = Append(written, doxyfile')
    /\ UNCHANGED <<buildVars, textVars, gitVars, project_number, linesep>>

DoxyNext == UpdateDoxyfile

SpecDoxyfile == DoxyInit /\ [][DoxyNext]_vars

\* A line of the file on disk that starts with the key, then whitespace,
\* then "=".
HasKeyLine(bytes) ==
    \E i \in 1..Len(bytes) :
        /\ i = 1 \/ bytes[i - 1] \in {"\n", "\r"}
        /\ StartsWith(bytes, i, Key)
        /\ \E j \in (i + Len(Key))..Len(bytes) :
              /\ bytes[j] = "="
              /\ \A k \in (i + Len(Key))..(j - 1) : bytes[k] \in Whitespace

\* Every line break of the file on disk is the platform's.
NativeLineBreaks(bytes, sep) ==
    \A i \in 1..Len(bytes) :
        /\ bytes[i] = "\r" =>
              sep = <<"\r", "\n">> /\ i < Len(bytes) /\ bytes[i + 1] = "\n"
        /\ bytes[i] = "\n" =>
              \/ sep = <<"\n">>
              \/ i > 1 /\ bytes[i - 1] = "\r"

\* No line break and no backslash in the version.
PlainVersion(version) ==
    \A i \in 1..Len(version) : version[i] \notin {"\n", "\r", "\\"}

\* C9 as stated: a second update with the same version leaves the file as
\* the first one left it, and a file without a key line is written back as
\* it was.
C9_Original ==
    /\ Len(written) = 3 => written[3] = written[2]
    /\ (Len(written) >= 2 /\ ~HasKeyLine(written[1])) =>
          written[2] = written[1]

\* C9 amended: for a version without line break and backslash, a second
\* update leaves the file as the first one left it; and a file without a key
\* line whose line breaks are all the platform's is written back as it was.
C9_PatchIdempotent ==
    /\ (Len(written) = 3 /\ PlainVersion(project_number)) =>
          written[3] = written[2]
    /\ (/\ Len(written) >= 2
        /\ ~HasKeyLine(written[1])
        /\ NativeLineBreaks(written[1], linesep)) =>
          written[2] = written[1]

\* C9 witness: a file with a key line was updated twice with a plain
\* version, and the first update changed it.
C9_Witness ==
    /\ Len(written) = 3
    /\ PlainVersion(project_number) /\ project_number # <<>>
    /\ HasKeyLine(written[1])
    /\ written[2] # written[1]
    /\ written[3] = written[2]

====
